---- MODULE Spec2Model ----
(***************************************************************************)
(* Model of the streaming decode pipeline of the zip reader:               *)
(*   io.go          RewindReader (the forward-only stream with a replay    *)
(*                  buffer and a logical cursor readIdx)                   *)
(*   fast_crypto.go newFastDecryptionReader / fastAuthReader               *)
(*   fast_reader.go FastFile.Open / findBodyOffset / fastFileReader        *)
(***************************************************************************)
EXTENDS Integers, Sequences, FiniteSets, TLC

VARIABLES
    src,      \* the bytes of the concatenated volumes (io.MultiReader's content)
    split,    \* offset of the boundary between volume 1 and 2 (0: one volume)
    pos,      \* number of bytes consumed so far from the raw reader of z.r
    rr,       \* rr[0]: z.r, the shared RewindReader; rr[i]: the RewindReader
              \* that newFastDecryptionReader creates for entry i
    lim,      \* lim[i]: N of "rr := io.LimitReader(f.zipR.r, size)" of entry i
    dlim,     \* dlim[i]: N of "data := io.LimitReader(rewindReader, dataLen)"
    files,    \* z.files: the catalog, sorted by headerOffset
    layout,   \* what the writer of the archive put into src, entry by entry
    ar,       \* ar[i]: the fastAuthReader of entry i
    fr,       \* fr[i]: the reader Open returned for entry i (fastFileReader)
    got,      \* got[i]: the bytes the caller received so far from entry i
    ret,      \* what the last call returned
    hist,     \* observation of the buffering sessions of z.r
    mode,     \* "stream": calls on the RewindReader; "catalog": Open/Read;
              \* "directory": init and WalkDir; "crashed": after a panic
    net       \* the transport below io.MultiReader: fault, the offset at
              \* which its Read returns an error (-1: nowhere), called,
              \* whether the last call reached the Read of io.MultiReader,
              \* and faulted, whether one of its Reads returned that error

vars == <<src, split, pos, rr, lim, dlim, files, layout, ar, fr, got, ret, hist,
          mode, net>>

----------------------------------------------------------------------------
(* Bounds of the model *)

\* length of the byte source of the stream specification
StreamLen == 4
\* largest len(p) of a Read, largest n of a Discard, largest buffer size
MaxArg == 2
\* the stream specification stops calling once |readIdx| exceeds this
MaxCursor == 4

\* longest file name and longest extra field of a local header
MaxNameLen == 1
MaxExtraLen == 1
\* longest plaintext of an entry
MaxBody == 2

\* the chunk of RewindReader.discard: buf := [128]byte{}
discardChunk == 128

Min(a, b) == IF a < b THEN a ELSE b

----------------------------------------------------------------------------
(* Errors *)

Nil == "nil"
EOF == "EOF"
ErrUnexpectedEOF == "unexpected EOF"
ErrFormat == "zip: not a valid zip file"
ErrAlgorithm == "zip: unsupported compression algorithm"
ErrChecksum == "zip: checksum error"
ErrDecryption == "zip: decryption error"
ErrPassword == "zip: invalid password"
ErrAuthentication == "zip: Failed to authenticate"
ErrWhence == "unsupported whence"
ErrSeekBack == "offset is less than readIdx"
\* an error of the transport, neither EOF nor an error of the format
ErrIO == "transport error"
Panic == "panic"

----------------------------------------------------------------------------
(* RewindReader (io.go) *)

\* &RewindReader{rawReader: r}
NewRewindReader ==
    [buf |-> <<>>, bufReadIdx |-> 0, rewound |-> FALSE, buffering |-> FALSE,
     bufferSize |-> 0, readIdx |-> 0]

\* the readers a call works on
IO == [pos |-> pos, rr |-> rr, lim |-> lim, dlim |-> dlim, ar |-> ar, fr |-> fr,
       called |-> FALSE, faulted |-> FALSE]

\* a transport that fails at offset f
FaultAt(f) == [fault |-> f, called |-> FALSE, faulted |-> FALSE]

\* a transport that never fails
NoFault == FaultAt(0 - 1)

\* where a Read of the transport that starts at offset p ends at the latest:
\* at the end of the volume, or where the transport fails
ReadEnd(p, volumeEnd) ==
    IF net.fault > p /\ net.fault < volumeEnd THEN net.fault ELSE volumeEnd

\* end of the volume that holds offset p
VolumeEnd(p) == IF split > 0 /\ p < split THEN split ELSE Len(src)

\* Every read-like call returns [io, n, data, err]: the readers after the
\* call, the count and the error it returns, and the bytes it delivered.

\* io.MultiReader(readers...).Read(p) with len(p) = n: one Read of the
\* current volume, never across the boundary; EOF after the last volume
SrcRead(io, n) ==
    IF n = 0
    THEN [io |-> [io EXCEPT !.called = TRUE], n |-> 0, data |-> <<>>, err |-> Nil]
    ELSE IF io.pos = net.fault
    THEN [io |-> [io EXCEPT !.called = TRUE, !.faulted = TRUE],
          n |-> 0, data |-> <<>>, err |-> ErrIO]
    ELSE IF io.pos >= Len(src)
    THEN [io |-> [io EXCEPT !.called = TRUE], n |-> 0, data |-> <<>>, err |-> EOF]
    ELSE [io   |-> [io EXCEPT !.pos = Min(@ + n, ReadEnd(@, VolumeEnd(@))),
                              !.called = TRUE],
          n    |-> Min(n, ReadEnd(io.pos, VolumeEnd(io.pos)) - io.pos),
          data |-> SubSeq(src, io.pos + 1,
                          Min(io.pos + n, ReadEnd(io.pos, VolumeEnd(io.pos)))),
          err  |-> Nil]

RECURSIVE Read(_, _, _)

\* l.N -= int64(n) of io.LimitedReader.Read
limited(r, i) == [r EXCEPT !.io.lim[i] = @ - r.n]

\* io.LimitReader(f.zipR.r, size).Read: the raw reader of rr[i], i > 0
LimitRead(io, i, n) ==
    IF io.lim[i] <= 0 THEN [io |-> io, n |-> 0, data |-> <<>>, err |-> EOF]
    ELSE limited(Read(io, 0, Min(n, io.lim[i])), i)

\* r.rawReader.Read(p)
rawRead(io, id, n) == IF id = 0 THEN SrcRead(io, n) ELSE LimitRead(io, id, n)

\* n := copy(p, r.buf[r.bufReadIdx:]); r.bufReadIdx += n; return n, nil
replay(io, id, k) ==
    [io   |-> [io EXCEPT !.rr[id].bufReadIdx = @ + k],
     n    |-> k,
     data |-> SubSeq(io.rr[id].buf, io.rr[id].bufReadIdx + 1,
                     io.rr[id].bufReadIdx + k),
     err  |-> Nil]

\* if r.buffering { r.buf = append(r.buf, p[:n]...) }
buffered(raw, id) ==
    IF raw.io.rr[id].buffering
    THEN [raw EXCEPT !.io.rr[id].buf = @ \o raw.data]
    ELSE raw

\* read with the replay offset advanced by one instead of by n
readReplayByOne(io, id, n) ==
    IF io.rr[id].rewound /\ Len(io.rr[id].buf) > io.rr[id].bufReadIdx
    THEN [replay(io, id, Min(n, Len(io.rr[id].buf) - io.rr[id].bufReadIdx))
            EXCEPT !.io.rr[id].bufReadIdx = io.rr[id].bufReadIdx + 1]
    ELSE buffered(rawRead([io EXCEPT !.rr[id].rewound = FALSE], id, n), id)

\* func (r *RewindReader) read(p []byte) (int, error)
read(io, id, n) ==
    IF io.rr[id].rewound /\ Len(io.rr[id].buf) > io.rr[id].bufReadIdx
    THEN replay(io, id, Min(n, Len(io.rr[id].buf) - io.rr[id].bufReadIdx))
    ELSE buffered(rawRead([io EXCEPT !.rr[id].rewound = FALSE], id, n), id)

\* r.readIdx += int64(n), with n the count the inner call returned
counted(r, id) == [r EXCEPT !.io.rr[id].readIdx = @ + r.n]

\* func (r *RewindReader) Read(p []byte) (int, error)
Read(io, id, n) == counted(read(io, id, n), id)

\* func (r *RewindReader) ReadByte() (byte, error): readByte calls Read,
\* which already counts the byte; ReadByte counts one more
ReadByte(io, id) == [Read(io, id, 1) EXCEPT !.io.rr[id].readIdx = @ + 1]

\* the loop of discard: for discarded := 0; discarded+128 < n; discarded += 128
\* (seen: the bytes the Reads delivered so far, kept for observation only);
\* err # Nil in the result: the loop returned (discarded, err)
RECURSIVE discardLoop(_, _, _, _, _)
RECURSIVE discardStep(_, _, _, _, _)
discardStep(r, id, discarded, n, seen) ==
    IF r.err # Nil
    THEN [r EXCEPT !.n = discarded, !.data = seen \o @]
    ELSE discardLoop(r.io, id, discarded + discardChunk, n, seen \o r.data)

discardLoop(io, id, discarded, n, seen) ==
    IF discarded + discardChunk < n
    THEN discardStep(Read(io, id, discardChunk), id, discarded, n, seen)
    ELSE [io |-> io, n |-> discarded, data |-> seen, err |-> Nil]

\* the bytes seen before those of r
after(seen, r) == [r EXCEPT !.data = seen \o @]

\* the end of discard: if rest := n % 128; rest != 0 { return r.Read(buf[:rest]) }
\* return n, nil
discardRest(l, id, n) ==
    IF l.err # Nil THEN l
    ELSE IF n % discardChunk # 0 THEN after(l.data, Read(l.io, id, n % discardChunk))
    ELSE [l EXCEPT !.n = n]

\* func (r *RewindReader) discard(n int) (int, error)
discard(io, id, n) ==
    IF n < discardChunk THEN Read(io, id, n)
    ELSE discardRest(discardLoop(io, id, 0, n, <<>>), id, n)

\* func (r *RewindReader) Discard(n int) (int, error)
Discard(io, id, n) == counted(discard(io, id, n), id)

\* the end of Seek: if err != nil { return 0, err }; return offset, nil
seekResult(r, offset) == IF r.err # Nil THEN [r EXCEPT !.n = 0] ELSE [r EXCEPT !.n = offset]

\* Seek without the test "offset < r.readIdx"
SeekUnchecked(io, id, offset, whence) ==
    IF whence # 0 THEN [io |-> io, n |-> 0, data |-> <<>>, err |-> ErrWhence]
    ELSE IF offset - io.rr[id].readIdx > 0
    THEN seekResult(Discard(io, id, offset - io.rr[id].readIdx), offset)
    ELSE [io |-> io, n |-> offset, data |-> <<>>, err |-> Nil]

\* func (r *RewindReader) Seek(offset int64, whence int) (int64, error)
Seek(io, id, offset, whence) ==
    IF whence # 0 THEN [io |-> io, n |-> 0, data |-> <<>>, err |-> ErrWhence]
    ELSE IF offset < io.rr[id].readIdx
    THEN [io |-> io, n |-> 0, data |-> <<>>, err |-> ErrSeekBack]
    ELSE IF offset - io.rr[id].readIdx > 0
    THEN seekResult(Discard(io, id, offset - io.rr[id].readIdx), offset)
    ELSE [io |-> io, n |-> offset, data |-> <<>>, err |-> Nil]

\* Rewind that takes the replay offset, not len(r.buf), off the cursor
RewindByReadOffset(io, id) ==
    IF io.rr[id].bufferSize = 0 THEN [io |-> io, n |-> 0, data |-> <<>>, err |-> Panic]
    ELSE [io  |-> [io EXCEPT !.rr[id].rewound = TRUE,
                             !.rr[id].bufReadIdx = 0,
                             !.rr[id].readIdx = @ - io.rr[id].bufReadIdx],
          n |-> 0, data |-> <<>>, err |-> Nil]

\* Rewind that tests r.buffering instead of r.bufferSize
RewindIfBuffering(io, id) ==
    IF ~io.rr[id].buffering THEN [io |-> io, n |-> 0, data |-> <<>>, err |-> Panic]
    ELSE [io  |-> [io EXCEPT !.rr[id].rewound = TRUE,
                             !.rr[id].bufReadIdx = 0,
                             !.rr[id].readIdx = @ - Len(io.rr[id].buf)],
          n |-> 0, data |-> <<>>, err |-> Nil]

\* func (r *RewindReader) Rewind()
Rewind(io, id) ==
    IF io.rr[id].bufferSize = 0 THEN [io |-> io, n |-> 0, data |-> <<>>, err |-> Panic]
    ELSE [io  |-> [io EXCEPT !.rr[id].rewound = TRUE,
                             !.rr[id].bufReadIdx = 0,
                             !.rr[id].readIdx = @ - Len(io.rr[id].buf)],
          n |-> 0, data |-> <<>>, err |-> Nil]

\* func (r *RewindReader) StopBuffering()
StopBuffering(io, id) ==
    [io |-> [io EXCEPT !.rr[id].buffering = FALSE], n |-> 0, data |-> <<>>, err |-> Nil]

\* func (r *RewindReader) SetBufferSize(size int)
SetBufferSize(io, id, size) ==
    IF size = 0
    THEN IF ~io.rr[id].buffering THEN [io |-> io, n |-> 0, data |-> <<>>, err |-> Panic]
         ELSE [io  |-> [io EXCEPT !.rr[id].buffering = FALSE,
                                  !.rr[id].buf = <<>>,
                                  !.rr[id].bufReadIdx = 0,
                                  !.rr[id].bufferSize = 0],
               n |-> 0, data |-> <<>>, err |-> Nil]
    ELSE IF io.rr[id].buffering THEN [io |-> io, n |-> 0, data |-> <<>>, err |-> Panic]
         ELSE [io  |-> [io EXCEPT !.rr[id].buffering = TRUE,
                                  !.rr[id].bufReadIdx = 0,
                                  !.rr[id].bufferSize = size,
                                  !.rr[id].buf = <<>>],
               n |-> 0, data |-> <<>>, err |-> Nil]

----------------------------------------------------------------------------
(* Calls on the RewindReader z.r (the stream specification) *)

\* the bytes of the stream specification: all different, so that a lost, a
\* repeated or a misplaced byte shows
StreamBytes == [k \in 1..StreamLen |-> 10 + k]

\* hist.set: "never" until SetBufferSize(n > 0) is called, then "set", and
\* "released" after SetBufferSize(0).  hist.phase: "fill" from
\* SetBufferSize(n > 0) while only reads follow, "replay" from the Rewind()
\* that ends it while only reads follow.  hist.first: the bytes delivered in
\* phase fill; hist.second: the bytes delivered in phase replay; hist.live:
\* the bytes the raw reader had delivered when Rewind() was called
NoHist == [phase |-> "none", first |-> <<>>, second |-> <<>>, live |-> 0,
           set |-> hist.set]

\* hist after a call that delivered the bytes data to its caller
Delivered(data) ==
    IF hist.phase = "fill" THEN [hist EXCEPT !.first = @ \o data]
    ELSE IF hist.phase = "replay" THEN [hist EXCEPT !.second = @ \o data]
    ELSE hist

\* what a call leaves of the readers
Commit(io) ==
    /\ pos' = io.pos /\ rr' = io.rr /\ lim' = io.lim /\ dlim' = io.dlim
    /\ ar' = io.ar /\ fr' = io.fr
    /\ net' = [net EXCEPT !.called = io.called, !.faulted = io.faulted]

Calling == mode = "stream" /\ rr[0].readIdx \in -MaxCursor..MaxCursor

InitStream ==
    /\ src = StreamBytes
    /\ split \in {0, 2}
    /\ pos = 0
    /\ rr = [i \in {0} |-> NewRewindReader]
    /\ lim = <<>> /\ dlim = <<>> /\ files = <<>> /\ layout = <<>>
    /\ ar = <<>> /\ fr = <<>> /\ got = <<>>
    /\ ret = [op |-> "new", arg |-> 0, n |-> 0, err |-> Nil]
    /\ hist = [phase |-> "none", first |-> <<>>, second |-> <<>>, live |-> 0,
               set |-> "never"]
    /\ mode = "stream"
    /\ net = NoFault

\* hist after the call op(arg) returned r
Observed(r, op, arg) ==
    IF r.err = Panic THEN hist
    ELSE IF op = "SetBufferSize"
    THEN IF arg = 0 THEN [NoHist EXCEPT !.set = "released"]
         ELSE [phase |-> "fill", first |-> <<>>, second |-> <<>>, live |-> 0,
               set |-> "set"]
    ELSE IF op = "Rewind"
    THEN IF hist.phase = "fill" THEN [hist EXCEPT !.phase = "replay", !.live = pos]
         ELSE NoHist
    ELSE IF op = "StopBuffering"
    THEN IF hist.phase = "replay" THEN hist ELSE NoHist
    ELSE Delivered(r.data)

\* the call op(arg) on z.r returned r
Called(r, op, arg) ==
    /\ Commit(r.io)
    /\ ret' = [op |-> op, arg |-> arg, n |-> r.n, err |-> r.err]
    /\ hist' = Observed(r, op, arg)
    /\ mode' = IF r.err = Panic THEN "crashed" ELSE mode
    /\ UNCHANGED <<src, split, files, layout, got>>

StreamRead(n) == Calling /\ Called(Read(IO, 0, n), "Read", n)

StreamReadByte == Calling /\ Called(ReadByte(IO, 0), "ReadByte", 1)

StreamDiscard(n) == Calling /\ Called(Discard(IO, 0, n), "Discard", n)

StreamSeek(offset, whence) ==
    Calling /\ Called(Seek(IO, 0, offset, whence), "Seek", offset)

StreamSetBufferSize(size) ==
    Calling /\ Called(SetBufferSize(IO, 0, size), "SetBufferSize", size)

StreamRewind == Calling /\ Called(Rewind(IO, 0), "Rewind", 0)

StreamStopBuffering == Calling /\ Called(StopBuffering(IO, 0), "StopBuffering", 0)

NextStream ==
    \/ \E n \in 0..MaxArg : StreamRead(n)
    \/ StreamReadByte
    \/ \E n \in 0..MaxArg : StreamDiscard(n)
    \/ \E d \in {-1, 0, 2} : StreamSeek(rr[0].readIdx + d, 0)
    \/ StreamSeek(rr[0].readIdx + 1, 1)
    \/ \E size \in 0..MaxArg : StreamSetBufferSize(size)
    \/ StreamRewind
    \/ StreamStopBuffering

SpecStream == InitStream /\ [][NextStream]_vars

----------------------------------------------------------------------------
(* The archive format and the collaborators of the readers *)

fileHeaderSignature == 67324752        \* 0x04034b50
directoryHeaderSignature == 33639248   \* 0x02014b50
dataDescriptorSignature == 134695760   \* 0x08074b50
fileHeaderLen == 30
dataDescriptorLen == 16
\* saltpwvv := make([]byte, saltLen+2)
pwvvLen == 2
\* adata := io.LimitReader(a.raw, 10)
tagLen == 10
\* the one compression method of the model: Store, whose decompressor hands
\* the bytes on unchanged
Store == 0

\* v in k bytes, little-endian
LE(v, k) == [j \in 1..k |-> (v \div (256 ^ (j - 1))) % 256]

\* readBuf.uint16 on the bytes of b from offset off (0-based)
uint16(b, off) == b[off + 1] + 256 * b[off + 2]

\* readBuf.uint32 on the bytes of b from offset off equals v (compared byte
\* by byte: the value of four arbitrary bytes can exceed the integers of the
\* model checker)
uint32Is(b, off, v) == SubSeq(b, off + 1, off + 4) = LE(v, 4)

\* the first n bytes of a zeroed array of n bytes after data was read into it
InBuf(data, n) == [k \in 1..n |-> IF k <= Len(data) THEN data[k] ELSE 0]

Zeros(n) == [k \in 1..n |-> 0]

\* hash/crc32 as a running value: Write(data) on the state h; Sum32 is h.
\* The empty input has checksum 0, as with CRC-32
RECURSIVE crcWrite(_, _)
crcWrite(h, data) ==
    IF data = <<>> THEN h
    ELSE crcWrite((h * 31 + Head(data) + 1) % 65521, Tail(data))

Crc32(data) == crcWrite(0, data)

\* aesKeyLen(strength): 16, 24 or 32 bytes, 0 for an unknown strength
aesKeyLen(strength) ==
    IF strength = 1 THEN 16 ELSE IF strength = 2 THEN 24
    ELSE IF strength = 3 THEN 32 ELSE 0

SaltLen(strength) == aesKeyLen(strength) \div 2

RECURSIVE SumSeq(_)
SumSeq(q) == IF q = <<>> THEN 0 ELSE Head(q) + SumSeq(Tail(q))

\* generateKeys(password, salt, keyLen): the decryption key, the
\* authentication key and the 2-byte password verification value, each a
\* deterministic function of the three inputs
generateKeys(password, salt, keyLen) ==
    [decKey  |-> (password * 7 + SumSeq(salt) + keyLen) % 256,
     authKey |-> (password * 5 + SumSeq(salt) + 1) % 251,
     pwv     |-> <<(password * 13 + SumSeq(salt)) % 256, (password + keyLen) % 256>>]

\* checkPasswordVerification(pwv, pwvv)
checkPasswordVerification(pwv, pwvv) == pwv = pwvv

\* hmac.New(sha1.New, akey), mac.Write(data), mac.Sum(nil) (20 bytes)
macNew(akey) == akey
RECURSIVE macWrite(_, _)
macWrite(h, data) ==
    IF data = <<>> THEN h
    ELSE macWrite((h * 33 + Head(data) + 5) % 65521, Tail(data))
macSum(h) == [k \in 1..20 |-> (h * k + k) % 256]

\* cipher.StreamReader of decryptStream on one byte, and the writer's inverse
decryptByte(key, c) == (c + 256 - key) % 256
encryptByte(key, b) == (b + key) % 256

----------------------------------------------------------------------------
(* The archives of the model.  An entry e of layout:                       *)
(*   nameLen, extraLen  lengths in the local header                        *)
(*   data               the plaintext                                      *)
(*   ae, strength       0: not encrypted; 1, 2: AES, AE-1 or AE-2          *)
(*   bit3               flag bit 3 of the directory record                 *)
(*   desc               "none": no descriptor follows the body, "sig": a   *)
(*                      descriptor with its signature, "nosig": without    *)
(*   crc, usize         CRC-32 and uncompressed size of the directory      *)
(*   descCrc            the checksum field of the descriptor               *)
(*   password           the password the caller set on the entry           *)
(*   tagOk              FALSE: one byte of the stored tag is changed       *)

TruePassword == 1

\* the salt of an entry: the one its record names, or that of the writer
\* of the model's archives
Salt(e) ==
    IF "salt" \in DOMAIN e THEN e.salt
    ELSE [k \in 1..SaltLen(e.strength) |-> 40 + k]

Keys(e) == generateKeys(TruePassword, Salt(e), aesKeyLen(e.strength))

Ciphertext(e) == [k \in 1..Len(e.data) |-> encryptByte(Keys(e).decKey, e.data[k])]

TrueTag(e) == SubSeq(macSum(macWrite(macNew(Keys(e).authKey), Ciphertext(e))), 1, tagLen)

StoredTag(e) ==
    IF e.tagOk THEN TrueTag(e)
    ELSE [TrueTag(e) EXCEPT ![tagLen] = (@ + 1) % 256]

Body(e) ==
    IF e.ae = 0 THEN e.data
    ELSE Salt(e) \o Keys(e).pwv \o Ciphertext(e) \o StoredTag(e)

Descriptor(e) ==
    IF e.desc = "sig"
    THEN LE(dataDescriptorSignature, 4) \o LE(e.descCrc, 4) \o LE(Len(Body(e)), 4)
         \o LE(Len(e.data), 4)
    ELSE IF e.desc = "nosig"
    THEN LE(e.descCrc, 4) \o LE(Len(Body(e)), 4) \o LE(Len(e.data), 4)
    ELSE <<>>

LocalHeader(e) ==
    LE(fileHeaderSignature, 4) \o Zeros(22) \o LE(e.nameLen, 2) \o LE(e.extraLen, 2)

EntryBytes(e) ==
    LocalHeader(e) \o [k \in 1..(e.nameLen + e.extraLen) |-> 97] \o Body(e)
    \o Descriptor(e)

\* the central directory that follows the entries: the signature of its
\* first record and the rest of the record and of the end record as zeros
DirectoryLen == 68
DirectoryBytes == LE(directoryHeaderSignature, 4) \o Zeros(DirectoryLen - 4)

RECURSIVE EntriesBytes(_)
EntriesBytes(L) == IF L = <<>> THEN <<>> ELSE EntryBytes(Head(L)) \o EntriesBytes(Tail(L))

\* the archive without its last cut bytes
ArchiveBytes(L, cut) ==
    SubSeq(EntriesBytes(L) \o DirectoryBytes, 1,
           Len(EntriesBytes(L)) + DirectoryLen - cut)

\* z.files after init: one record per directory record, by ascending offset
FileOf(L, i) ==
    [headerOffset       |-> Len(EntriesBytes(SubSeq(L, 1, i - 1))),
     CompressedSize64   |-> Len(Body(L[i])),
     UncompressedSize64 |-> L[i].usize,
     CRC32              |-> L[i].crc,
     Flags              |-> IF L[i].bit3 THEN 8 ELSE 0,
     Method             |-> Store,
     ae                 |-> L[i].ae,
     aesStrength        |-> L[i].strength,
     password           |-> L[i].password]

Catalog(L) == [i \in 1..Len(L) |-> FileOf(L, i)]

----------------------------------------------------------------------------
(* FastFile.Open (fast_reader.go) on entry i of files *)

Failed(io, err) == [io |-> io, n |-> 0, data |-> <<>>, err |-> err]
Ok(io) == [io |-> io, n |-> 0, data |-> <<>>, err |-> Nil]

\* f.hasDataDescriptor()
hasDataDescriptor(f) == (f.Flags \div 8) % 2 = 1

\* f.isAE2()
isAE2(f) == f.ae = 2

\* the end of findBodyOffset: the signature, then filenameLen + extraLen;
\* b is the array buf, of which Read filled a prefix
fboParse(r, b) ==
    IF ~uint32Is(b, 0, fileHeaderSignature) THEN Failed(r.io, ErrFormat)
    ELSE [r EXCEPT !.n = uint16(b, 26) + uint16(b, 28)]

fboAfterRead(r) ==
    IF r.err # Nil THEN Failed(r.io, r.err)
    ELSE fboParse(r, InBuf(r.data, fileHeaderLen))

\* findBodyOffset going on to read the header whatever Seek returned
fboAfterSeekUnchecked(s) == fboAfterRead(Read(s.io, 0, fileHeaderLen))

fboAfterSeek(s) ==
    IF s.err # Nil THEN Failed(s.io, s.err)
    ELSE fboAfterRead(Read(s.io, 0, fileHeaderLen))

\* func (f *FastFile) findBodyOffset() (int64, error)
findBodyOffset(io, i) == fboAfterSeek(Seek(io, 0, files[i].headerOffset, 0))

\* dataLen := int64(header.CompressedSize64 - uint64(saltLen) - 2 - 10)
DataLen(f) == f.CompressedSize64 - SaltLen(f.aesStrength) - pwvvLen - tagLen

\* the end of newFastDecryptionReader: Seek(dataOff), the LimitReader over the
\* ciphertext and the fastAuthReader
nfdStream(io, k, i) ==
    Ok([io EXCEPT
          !.dlim[i] = DataLen(files[i]),
          !.ar[i] = [authOff |-> SaltLen(files[i].aesStrength) + pwvvLen
                                  + DataLen(files[i]),
                     mac     |-> macNew(k.authKey),
                     err     |-> Nil,
                     auth    |-> FALSE,
                     decKey  |-> k.decKey]])

nfdKeys(io, k, pwvv, i) ==
    IF ~checkPasswordVerification(k.pwv, pwvv) THEN Failed(io, ErrPassword)
    ELSE nfdStream(Seek(io, i, SaltLen(files[i].aesStrength) + pwvvLen, 0).io, k, i)

nfdCheck(io, saltpwvv, i) ==
    nfdKeys(io,
            generateKeys(files[i].password,
                         SubSeq(saltpwvv, 1, SaltLen(files[i].aesStrength)),
                         aesKeyLen(files[i].aesStrength)),
            SubSeq(saltpwvv, SaltLen(files[i].aesStrength) + 1,
                   SaltLen(files[i].aesStrength) + pwvvLen),
            i)

nfdAfterPeek(r, i) ==
    IF r.err # Nil THEN Failed(r.io, r.err)
    ELSE nfdCheck(StopBuffering(Rewind(r.io, i).io, i).io,
                  InBuf(r.data, SaltLen(files[i].aesStrength) + pwvvLen), i)

\* func newFastDecryptionReader(r io.Reader, header *FileHeader): rr[i] is
\* the new RewindReader, its raw reader the LimitReader lim[i]
newFastDecryptionReader(io, i) ==
    IF SaltLen(files[i].aesStrength) = 0
    THEN Failed([io EXCEPT !.rr[i] = NewRewindReader], ErrDecryption)
    ELSE nfdAfterPeek(
            Read(SetBufferSize([io EXCEPT !.rr[i] = NewRewindReader], i,
                               SaltLen(files[i].aesStrength) + pwvvLen).io,
                 i, SaltLen(files[i].aesStrength) + pwvvLen),
            i)

\* the end of Open: the decompressor, and the fastFileReader unless AE-2
openWrap(io, discardSize, i) ==
    IF files[i].Method # Store THEN Failed(io, ErrAlgorithm)
    ELSE IF isAE2(files[i])
    THEN [Ok([io EXCEPT !.fr[i].kind = "aes2"]) EXCEPT !.n = discardSize]
    ELSE [Ok([io EXCEPT !.fr[i] =
                [kind    |-> "file",
                 descOff |-> IF hasDataDescriptor(files[i])
                             THEN files[i].headerOffset + fileHeaderLen
                                  + discardSize + files[i].CompressedSize64
                             ELSE 0,
                 hash    |-> 0,
                 nread   |-> 0,
                 err     |-> Nil]])
            EXCEPT !.n = discardSize]

openAfterDecrypt(r, discardSize, i) ==
    IF r.err # Nil THEN r ELSE openWrap(r.io, discardSize, i)

\* rr := io.LimitReader(f.zipR.r, size), then the encryption of the entry
\* (entries of the legacy cipher, encrypted with ae = 0, are not modelled)
openBody(io, discardSize, i) ==
    IF files[i].ae # 0
    THEN openAfterDecrypt(newFastDecryptionReader(io, i), discardSize, i)
    ELSE openWrap(io, discardSize, i)

openAfterDiscard(d, discardSize, i) ==
    IF d.err # Nil THEN Failed(d.io, d.err)
    ELSE openBody([d.io EXCEPT !.lim[i] = files[i].CompressedSize64], discardSize, i)

openAfterFind(f, i) ==
    IF f.err # Nil THEN f ELSE openAfterDiscard(Discard(f.io, 0, f.n), f.n, i)

\* func (f *FastFile) Open() (rc io.ReadCloser, err error); n of the result
\* is discardSize, what findBodyOffset returned
Open(io, i) == openAfterFind(findBodyOffset(io, i), i)

----------------------------------------------------------------------------
(* fastAuthReader (fast_crypto.go) of entry i *)

\* l.N -= int64(n) of data := io.LimitReader(rewindReader, dataLen)
dlimited(r, i) == [r EXCEPT !.io.dlim[i] = @ - r.n]

\* a.data.Read(p)
dataRead(io, i, n) ==
    IF io.dlim[i] <= 0 THEN Failed(io, EOF)
    ELSE dlimited(Read(io, i, Min(n, io.dlim[i])), i)

\* io.Copy(ab, io.LimitReader(a.raw, 10)): Reads until the limit is used up
\* or a Read returns an error; EOF ends the copy without an error
RECURSIVE copyN(_, _, _, _)
RECURSIVE copyStep(_, _, _, _)
copyStep(r, id, left, acc) ==
    IF r.err = EOF THEN [r EXCEPT !.data = acc \o @, !.n = Len(acc \o r.data), !.err = Nil]
    ELSE IF r.err # Nil THEN [r EXCEPT !.data = acc \o @, !.n = Len(acc \o r.data)]
    ELSE copyN(r.io, id, left - r.n, acc \o r.data)

copyN(io, id, left, acc) ==
    IF left <= 0 THEN [io |-> io, n |-> Len(acc), data |-> acc, err |-> Nil]
    ELSE copyStep(Read(io, id, left), id, left, acc)

\* func (a *fastAuthReader) checkAuthentication(authcode []byte) bool
checkAuthentication(mac, authcode) == SubSeq(macSum(mac), 1, tagLen) = authcode

\* Read returns (n, a.err) with a.err = err
authFail(r, io, i, err) == [r EXCEPT !.io = [io EXCEPT !.ar[i].err = err], !.err = err]

\* Read after io.Copy returned c
authAfterTag(r, c, i) ==
    IF c.err # Nil \/ Len(c.data) # tagLen THEN authFail(r, c.io, i, ErrDecryption)
    ELSE IF ~checkAuthentication(c.io.ar[i].mac, c.data)
    THEN authFail(r, c.io, i, ErrAuthentication)
    ELSE [r EXCEPT !.io = [c.io EXCEPT !.ar[i].auth = TRUE]]

\* Read after a.raw.Seek(a.authOff, 0) returned s
authAfterSeek(r, s, i) ==
    IF s.err # Nil THEN authFail(r, s.io, i, s.err)
    ELSE authAfterTag(r, copyN(s.io, i, tagLen, <<>>), i)

\* if end { ... }
authEnd(r, i) == authAfterSeek(r, Seek(r.io, i, r.io.ar[i].authOff, 0), i)

\* a.mac.Write(p[:n])
macWritten(r, i) == [r EXCEPT !.io.ar[i].mac = macWrite(@, r.data)]

\* Read after a.data.Read(p) returned r
authAfterData(r, i) ==
    IF r.err # Nil /\ r.err # EOF THEN authFail(r, r.io, i, r.err)
    ELSE IF r.err = EOF
    THEN authEnd(macWritten([r EXCEPT !.io.ar[i].err = EOF], i), i)
    ELSE macWritten(r, i)

\* func (a *fastAuthReader) Read(p []byte) (int, error)
AuthRead(io, i, n) ==
    IF io.ar[i].err # Nil THEN Failed(io, io.ar[i].err)
    ELSE authAfterData(dataRead(io, i, n), i)

\* cipher.StreamReader.Read of decryptStream(decKey, ar)
decrypted(r, i) ==
    [r EXCEPT !.data = [k \in 1..Len(r.data) |->
                            decryptByte(r.io.ar[i].decKey, r.data[k])]]

DecryptRead(io, i, n) == decrypted(AuthRead(io, i, n), i)

----------------------------------------------------------------------------
(* fastFileReader (fast_reader.go) of entry i *)

\* io.ReadFull(r.raw, buf[:want])
RECURSIVE readFull(_, _, _, _)
RECURSIVE readFullStep(_, _, _, _)
readFullStep(r, id, want, acc) ==
    IF r.err = Nil THEN readFull(r.io, id, want, acc \o r.data)
    ELSE IF Len(acc \o r.data) >= want
    THEN [r EXCEPT !.data = acc \o @, !.n = Len(acc \o r.data), !.err = Nil]
    ELSE IF Len(acc \o r.data) > 0 /\ r.err = EOF
    THEN [r EXCEPT !.data = acc \o @, !.n = Len(acc \o r.data), !.err = ErrUnexpectedEOF]
    ELSE [r EXCEPT !.data = acc \o @, !.n = Len(acc \o r.data)]

readFull(io, id, want, acc) ==
    IF Len(acc) >= want THEN [io |-> io, n |-> Len(acc), data |-> acc, err |-> Nil]
    ELSE readFullStep(Read(io, id, want - Len(acc)), id, want, acc)

\* defer r.raw.StopBuffering()
deferStop(r) == [r EXCEPT !.io = StopBuffering(r.io, 0).io]

\* the end of readDataDescriptor: b.uint32() != r.f.CRC32, with the first
\* four bytes of buf in crcField
rddCheck(r, crcField, i) ==
    IF r.err # Nil THEN r
    ELSE IF ~uint32Is(crcField, 0, files[i].CRC32) THEN Failed(r.io, ErrChecksum)
    ELSE Ok(r.io)

\* io.ReadFull(r.raw, buf[off:12]) with off = 4: buf[:4] keeps the first
\* four bytes of the window w
rddNoSignature(w, i) == rddCheck(readFull(w.io, 0, 12 - 4, <<>>), SubSeq(w.data, 1, 4), i)

\* io.ReadFull(r.raw, buf[off:12]) with off = 0: the bytes read replace buf[:12]
rddFields(r, i) == rddCheck(r, IF r.err = Nil THEN SubSeq(r.data, 1, 4) ELSE <<>>, i)

rddSignature(w, i) == rddFields(readFull(w.io, 0, 12, <<>>), i)

\* readDataDescriptor after io.ReadFull(r.raw, buf[:]) returned w
rddAfterWindow(w, i) ==
    IF w.err # Nil THEN Failed(w.io, w.err)
    ELSE IF uint32Is(w.data, 0, dataDescriptorSignature) THEN rddSignature(w, i)
    ELSE IF uint32Is(w.data, 0, fileHeaderSignature)
            \/ uint32Is(w.data, 0, directoryHeaderSignature)
    THEN Ok(StopBuffering(Rewind(w.io, 0).io, 0).io)
    ELSE rddNoSignature(w, i)

rddAfterSet(b) ==
    IF b.err # Nil THEN b ELSE readFull(b.io, 0, dataDescriptorLen, <<>>)

rddAfterSeek(s, i) ==
    IF s.err # Nil THEN Failed(s.io, s.err)
    ELSE deferStop(rddAfterWindow(rddAfterSet(SetBufferSize(s.io, 0, dataDescriptorLen)), i))

\* func (r *fastFileReader) readDataDescriptor() error
readDataDescriptor(io, i) == rddAfterSeek(Seek(io, 0, io.fr[i].descOff, 0), i)

\* r.err = err; return
sticky(r, i, err) == [r EXCEPT !.err = err, !.io.fr[i].err = err]

\* Read after readDataDescriptor returned d
fileAfterDesc(r, d, i) ==
    sticky([r EXCEPT !.io = d.io], i,
           IF d.err # Nil THEN (IF d.err = EOF THEN ErrUnexpectedEOF ELSE d.err)
           ELSE IF d.io.fr[i].hash # files[i].CRC32 THEN ErrChecksum
           ELSE EOF)

\* Read comparing nread with the declared size only after the descriptor
\* and the checksum
fileEndLengthLast(r, i) ==
    IF r.err = Nil THEN r
    ELSE IF r.err = EOF
    THEN IF r.io.fr[i].descOff > 0
         THEN fileAfterDesc(r, readDataDescriptor(r.io, i), i)
         ELSE IF files[i].CRC32 # 0 /\ r.io.fr[i].hash # files[i].CRC32
         THEN sticky(r, i, ErrChecksum)
         ELSE IF r.io.fr[i].nread # files[i].UncompressedSize64
         THEN [r EXCEPT !.n = 0, !.data = <<>>, !.err = ErrUnexpectedEOF]
         ELSE sticky(r, i, EOF)
    ELSE sticky(r, i, r.err)

\* Read after rc.Read returned r and hash and nread took its bytes
fileEnd(r, i) ==
    IF r.err = Nil THEN r
    ELSE IF r.err = EOF
    THEN IF r.io.fr[i].nread # files[i].UncompressedSize64
         THEN [r EXCEPT !.n = 0, !.data = <<>>, !.err = ErrUnexpectedEOF]
         ELSE IF r.io.fr[i].descOff > 0
         THEN fileAfterDesc(r, readDataDescriptor(r.io, i), i)
         ELSE sticky(r, i, IF files[i].CRC32 # 0 /\ r.io.fr[i].hash # files[i].CRC32
                           THEN ErrChecksum ELSE EOF)
    ELSE sticky(r, i, r.err)

\* r.hash.Write(p[:n]); r.nread += uint64(n)
hashed(r, i) ==
    [r EXCEPT !.io.fr[i].hash = crcWrite(@, r.data), !.io.fr[i].nread = @ + r.n]

\* r.rc.Read(p): the Store decompressor over the LimitReader of the body,
\* or over the decryption reader
rcRead(io, i, n) ==
    IF files[i].ae # 0 THEN DecryptRead(io, i, n) ELSE LimitRead(io, i, n)

\* func (r *fastFileReader) Read(p []byte) (n int, err error)
FileRead(io, i, n) ==
    IF io.fr[i].err # Nil THEN Failed(io, io.fr[i].err)
    ELSE fileEnd(hashed(rcRead(io, i, n), i), i)

\* Read on the reader that Open returned for entry i
EntryRead(io, i, n) ==
    IF io.fr[i].kind = "file" THEN FileRead(io, i, n) ELSE DecryptRead(io, i, n)

----------------------------------------------------------------------------
(* The catalog specifications: Open and Read calls on the entries of an     *)
(* archive.  Each entry is opened at most once.                             *)

NoReader == [kind |-> "none", descOff |-> 0, hash |-> 0, nread |-> 0, err |-> Nil]
NoAuth == [authOff |-> 0, mac |-> 0, err |-> Nil, auth |-> FALSE, decKey |-> 0]

\* the error the reader of entry i holds (fastFileReader.err, or
\* fastAuthReader.err for an AE-2 entry, whose reader is the decryption reader)
ReaderErr(i) == IF fr[i].kind = "aes2" THEN ar[i].err ELSE fr[i].err

\* entry j was opened and its reader, if Open returned one, has ended
Finished(j) == j \in hist.tried /\ (fr[j].kind = "none" \/ ReaderErr(j) # Nil)

InitCatalog(L, cut) ==
    /\ src = ArchiveBytes(L, cut)
    /\ split = 0
    /\ pos = 0
    /\ rr = [i \in 0..Len(L) |-> NewRewindReader]
    /\ lim = [i \in 1..Len(L) |-> 0]
    /\ dlim = [i \in 1..Len(L) |-> 0]
    /\ files = Catalog(L)
    /\ layout = L
    /\ ar = [i \in 1..Len(L) |-> NoAuth]
    /\ fr = [i \in 1..Len(L) |-> NoReader]
    /\ got = [i \in 1..Len(L) |-> <<>>]
    /\ ret = [op |-> "new", arg |-> 0, n |-> 0, err |-> Nil]
    /\ hist = [inOrder |-> TRUE, tried |-> {},
               failed |-> [i \in 1..Len(L) |-> [err |-> Nil, later |-> FALSE]]]
    /\ mode = "catalog"

\* what the caller has seen of the failure of a reader, after a Read that
\* returned err: the first error other than EOF that a Read returned, and
\* whether a Read was called after that one
Failure(f, err) ==
    IF f.err # Nil THEN [f EXCEPT !.later = TRUE]
    ELSE [err |-> IF err = EOF THEN Nil ELSE err, later |-> FALSE]

\* the call op on entry i returned r
CalledEntry(r, op, i) ==
    /\ Commit(r.io)
    /\ ret' = [op |-> op, arg |-> i, n |-> r.n, err |-> r.err]
    /\ got' = IF op = "Read" THEN [got EXCEPT ![i] = @ \o r.data] ELSE got
    /\ hist' = IF op = "Read" THEN [hist EXCEPT !.failed[i] = Failure(@, r.err)]
               ELSE [inOrder |-> /\ hist.inOrder
                                 /\ hist.tried = 1..(i - 1)
                                 /\ \A j \in 1..(i - 1) : Finished(j),
                     tried   |-> hist.tried \cup {i},
                     failed  |-> hist.failed]
    /\ mode' = IF r.err = Panic THEN "crashed" ELSE mode
    /\ UNCHANGED <<src, split, files, layout>>

OpenEntry(i) ==
    /\ mode = "catalog"
    /\ i \notin hist.tried
    /\ CalledEntry(Open(IO, i), "Open", i)

ReadEntry(i, n) ==
    /\ mode = "catalog"
    /\ fr[i].kind # "none"
    /\ CalledEntry(EntryRead(IO, i, n), "Read", i)

NextCatalog ==
    \/ \E i \in 1..Len(files) : OpenEntry(i)
    \/ \E i \in 1..Len(files), n \in 1..MaxArg : ReadEntry(i, n)

Plaintext(size) == [k \in 1..size |-> 100 + k]

\* an entry that is not encrypted and has no descriptor, as its writer
\* leaves it
Plain(nameLen, extraLen, size) ==
    [nameLen |-> nameLen, extraLen |-> extraLen, data |-> Plaintext(size),
     ae |-> 0, strength |-> 0, bit3 |-> FALSE, desc |-> "none",
     crc |-> Crc32(Plaintext(size)), usize |-> size, descCrc |-> 0,
     password |-> 0, tagOk |-> TRUE]

\* a CRC-32 value other than v and other than 0
OtherCrc(v) == IF v = 1 THEN 2 ELSE 1

\* the checksums a directory declares in the model: that of the data,
\* zero, and another one
PlainCrcs(e) == {Crc32(e.data), 0, OtherCrc(Crc32(e.data))}

PlainArchives ==
    LET first == UNION { { [Plain(nl, xl, size) EXCEPT !.crc = c] :
                              c \in PlainCrcs(Plain(nl, xl, size)) } :
                         nl \in 0..MaxNameLen, xl \in 0..MaxExtraLen,
                         size \in 0..MaxBody }
        second == { Plain(nl, 0, size) : nl \in 0..MaxNameLen, size \in 0..MaxBody }
    IN  { <<e>> : e \in first } \cup { <<e, f>> : e \in first, f \in second }

Init == net = NoFault /\ \E L \in PlainArchives : InitCatalog(L, 0)

Spec == Init /\ [][NextCatalog]_vars

\* an AES entry (AE-1 or AE-2) of the given key strength; the caller sets
\* password; tagOk: the stored tag is the one the writer computed
Aes(strength, ae, nameLen, size, password, tagOk) ==
    [nameLen |-> nameLen, extraLen |-> 0, data |-> Plaintext(size),
     ae |-> ae, strength |-> strength, bit3 |-> FALSE, desc |-> "none",
     crc |-> IF ae = 2 THEN 0 ELSE Crc32(Plaintext(size)), usize |-> size,
     descCrc |-> 0, password |-> password, tagOk |-> tagOk]

WrongPassword == 2

\* an AES entry alone, or after an unencrypted entry
AesArchives ==
    LET aes == { Aes(st, ae, nl, size, pw, ok) :
                    st \in 1..3, ae \in {1, 2}, nl \in 0..MaxNameLen,
                    size \in 0..MaxBody, pw \in {TruePassword, WrongPassword},
                    ok \in BOOLEAN }
        before == { Plain(nl, 0, 1) : nl \in 0..MaxNameLen }
    IN  { <<e>> : e \in aes } \cup { <<f, e>> : f \in before, e \in aes }

\* the archive whole, or cut inside the tag of its last entry (one byte of
\* the tag and the directory missing)
InitAES ==
    /\ net = NoFault
    /\ \E L \in AesArchives, cut \in {0, DirectoryLen + 1} : InitCatalog(L, cut)

SpecAES == InitAES /\ [][NextCatalog]_vars

\* an unencrypted entry with flag bit 3 set: followed by a descriptor with
\* its signature ("sig"), without it ("nosig"), or by none; descCrc is the
\* checksum the descriptor carries
Flagged(nameLen, size, desc, descCrc) ==
    [Plain(nameLen, 0, size) EXCEPT !.bit3 = TRUE, !.desc = desc, !.descCrc = descCrc]

\* a flagged entry, last in the archive or followed by an unencrypted entry
DescArchives ==
    LET first == UNION { { Flagged(nl, size, desc, c) :
                              c \in {Crc32(Plaintext(size)),
                                     OtherCrc(Crc32(Plaintext(size)))} } :
                         nl \in 0..MaxNameLen, size \in 0..MaxBody,
                         desc \in {"none", "sig", "nosig"} }
        second == { Plain(nl, xl, size) : nl \in 0..MaxNameLen,
                       xl \in 0..MaxExtraLen, size \in 0..MaxBody }
    IN  { <<e>> : e \in first } \cup { <<e, f>> : e \in first, f \in second }

InitDesc == net = NoFault /\ \E L \in DescArchives : InitCatalog(L, 0)

SpecDesc == InitDesc /\ [][NextCatalog]_vars

\* entries whose directory record or whose bytes are not what a writer
\* produces: a declared uncompressed size one off, a declared checksum that
\* is not that of the data, a descriptor with another checksum, a wrong tag
Damaged(e) ==
    { [e EXCEPT !.usize = u, !.crc = c] :
         u \in {n \in {Len(e.data) - 1, Len(e.data), Len(e.data) + 1} : n >= 0},
         c \in {e.crc, OtherCrc(e.crc)} }

DamagedArchives ==
    LET plain == UNION { Damaged(Plain(nl, 0, size)) :
                            nl \in 0..MaxNameLen, size \in 0..MaxBody }
        flagged == UNION { Damaged(Flagged(0, size, desc, Crc32(Plaintext(size)))) :
                              size \in 0..MaxBody, desc \in {"sig", "nosig"} }
        aes == UNION { Damaged(Aes(1, ae, 0, size, TruePassword, ok)) :
                          ae \in {1, 2}, size \in 0..MaxBody, ok \in BOOLEAN }
    IN  { <<e>> : e \in plain \cup flagged \cup aes }

\* the offsets at which the transport may fail: within the entry and the
\* window after it that readDataDescriptor reads
Faults(L) == 0..(Len(EntriesBytes(L)) + dataDescriptorLen)

\* an archive of one entry; the stream ends with the archive, or one byte
\* before the end of the entry, or the transport fails at some offset
InitDamaged ==
    \E L \in DamagedArchives :
        /\ \E cut \in {0, DirectoryLen + 1} : InitCatalog(L, cut)
        /\ \E f \in {0 - 1} \cup Faults(L) : net = FaultAt(f)

SpecDamaged == InitDamaged /\ [][NextCatalog]_vars

\* a password and a salt for which generateKeys on the first half of salt
\* and verifier, the rest zero, gives a verification value of two zero bytes
\* (one password in 65536 does for a given salt)
ZeroPwvPassword == 240
ZeroPwvSalt == <<208, 0, 0, 0, 0, 46, 47, 48>>

\* an AES-128 entry with a salt of its own
Salted(ae, size, password, salt) ==
    [salt |-> salt] @@ Aes(1, ae, 0, size, password, TRUE)

SaltedArchives ==
    { <<Salted(ae, size, pw, salt)>> :
         ae \in {1, 2}, size \in 0..MaxBody,
         pw \in {TruePassword, ZeroPwvPassword},
         salt \in {ZeroPwvSalt, [k \in 1..SaltLen(1) |-> 40 + k]} }

\* an archive of one AES entry in two volumes, the first of which ends
\* within the salt and the verifier of the entry, over a transport that may
\* fail within the entry
InitVolumes ==
    \E L \in SaltedArchives :
        /\ src = ArchiveBytes(L, 0)
        /\ split \in (fileHeaderLen + 1)..(fileHeaderLen + SaltLen(1) + pwvvLen)
        /\ pos = 0
        /\ rr = [i \in 0..Len(L) |-> NewRewindReader]
        /\ lim = [i \in 1..Len(L) |-> 0]
        /\ dlim = [i \in 1..Len(L) |-> 0]
        /\ files = Catalog(L)
        /\ layout = L
        /\ ar = [i \in 1..Len(L) |-> NoAuth]
        /\ fr = [i \in 1..Len(L) |-> NoReader]
        /\ got = [i \in 1..Len(L) |-> <<>>]
        /\ ret = [op |-> "new", arg |-> 0, n |-> 0, err |-> Nil]
        /\ hist = [inOrder |-> TRUE, tried |-> {},
                   failed |-> [i \in 1..Len(L) |-> [err |-> Nil, later |-> FALSE]]]
        /\ mode = "catalog"
        /\ \E f \in {0 - 1} \cup (fileHeaderLen..Len(EntriesBytes(L))) : net = FaultAt(f)

SpecVolumes == InitVolumes /\ [][NextCatalog]_vars

----------------------------------------------------------------------------
(* FastReader.init and WalkDir: the directory pass.  layout is the central  *)
(* directory as written, files is z.files, hist the position of the loop,   *)
(* got what the callback of WalkDir received, ret what init returned.       *)

MaxRecords == 3
MaxOffset == 2

\* one directory record as written: a header with the offset of its local
\* header, a record with a bad signature, a record cut short, or a record
\* whose read fails in the transport
DirRecords ==
    [kind : {"header"}, headerOffset : 0..MaxOffset]
    \cup [kind : {"malformed", "short", "error"}, headerOffset : {0}]

RECURSIVE SeqsUpTo(_, _)
SeqsUpTo(S, n) ==
    IF n = 0 THEN {<<>>}
    ELSE SeqsUpTo(S, n - 1)
         \cup { Append(q, x) : q \in { t \in SeqsUpTo(S, n - 1) : Len(t) = n - 1 }, x \in S }

\* readDirectoryEnd: the end record, or the error of looking for it
readDirectoryEnd(d) ==
    [directoryRecords |-> d.count, err |-> d.endErr]

\* readDirectoryHeader on record k of the directory: the end record that
\* follows the last header does not carry the signature of a header
readDirectoryHeader(d, k) ==
    IF k > Len(d.records) THEN [err |-> ErrFormat, headerOffset |-> 0]
    ELSE IF d.records[k].kind = "malformed" THEN [err |-> ErrFormat, headerOffset |-> 0]
    ELSE IF d.records[k].kind = "short" THEN [err |-> ErrUnexpectedEOF, headerOffset |-> 0]
    ELSE IF d.records[k].kind = "error" THEN [err |-> ErrIO, headerOffset |-> 0]
    ELSE [err |-> Nil, headerOffset |-> d.records[k].headerOffset]

\* &FastFile{FileHeader: f.FileHeader, headerOffset: f.headerOffset}: the
\* header is named by the position of its record in the directory
FastFile(h, k) == [headerOffset |-> h.headerOffset, record |-> k]

\* if err == ErrFormat || err == io.ErrUnexpectedEOF { break }
loopEndsOnFormatOnly(err) == err = ErrFormat

loopEnds(err) == err \in {ErrFormat, ErrUnexpectedEOF}

Bijections(n) == { f \in [1..n -> 1..n] : \A i, j \in 1..n : f[i] = f[j] => i = j }

\* sort.Slice(z.files, less by headerOffset): not stable, so any order of
\* the same elements that ascends by headerOffset
sortSliceNone(fs) == {fs}

sortSlice(fs) ==
    { t \in { [i \in 1..Len(fs) |-> fs[f[i]]] : f \in Bijections(Len(fs)) } :
        \A i \in 1..(Len(fs) - 1) : t[i].headerOffset <= t[i + 1].headerOffset }

InitDir ==
    /\ layout \in [records : SeqsUpTo(DirRecords, MaxRecords),
                   count : 0..MaxRecords, endErr : {Nil, ErrFormat}]
    /\ src = <<>> /\ split = 0 /\ pos = 0
    /\ rr = [i \in {0} |-> NewRewindReader]
    /\ lim = <<>> /\ dlim = <<>> /\ ar = <<>> /\ fr = <<>>
    /\ files = <<>>
    /\ got = <<>>
    /\ ret = [op |-> "new", arg |-> 0, n |-> 0, err |-> Nil]
    /\ hist = [phase |-> "end", k |-> 0]
    /\ mode = "directory"
    /\ net = NoFault

DirFrame == UNCHANGED <<src, split, pos, rr, lim, dlim, layout, ar, fr, mode, net>>

\* init up to the loop: readDirectoryEnd and make([]*FastFile, 0, records)
InitEnd ==
    /\ mode = "directory" /\ hist.phase = "end"
    /\ IF readDirectoryEnd(layout).err # Nil
       THEN /\ ret' = [op |-> "init", arg |-> 0, n |-> 0,
                       err |-> readDirectoryEnd(layout).err]
            /\ hist' = [hist EXCEPT !.phase = "failed"]
       ELSE /\ ret' = ret
            /\ hist' = [hist EXCEPT !.phase = "headers"]
    /\ files' = <<>> /\ got' = got
    /\ DirFrame

\* one turn of the loop of init; the turn that breaks goes on to sort
\* z.files and return nil
InitHeader ==
    /\ mode = "directory" /\ hist.phase = "headers"
    /\ LET h == readDirectoryHeader(layout, hist.k + 1) IN
       IF loopEnds(h.err)
       THEN /\ files' \in sortSlice(files)
            /\ ret' = [op |-> "init", arg |-> 0, n |-> Len(files), err |-> Nil]
            /\ hist' = [hist EXCEPT !.phase = "ready"]
       ELSE IF h.err # Nil
       THEN /\ files' = files
            /\ ret' = [op |-> "init", arg |-> 0, n |-> 0, err |-> h.err]
            /\ hist' = [hist EXCEPT !.phase = "failed"]
       ELSE /\ files' = Append(files, FastFile(h, hist.k + 1))
            /\ ret' = ret
            /\ hist' = [hist EXCEPT !.k = @ + 1]
    /\ got' = got
    /\ DirFrame

\* func (z *FastReader) WalkDir(fn func(f *FastFile)), fn recording its argument
WalkDir ==
    /\ mode = "directory" /\ hist.phase = "ready"
    /\ got' = files
    /\ ret' = [op |-> "WalkDir", arg |-> 0, n |-> Len(files), err |-> Nil]
    /\ hist' = [hist EXCEPT !.phase = "walked"]
    /\ files' = files
    /\ DirFrame

NextDir == InitEnd \/ InitHeader \/ WalkDir

SpecDir == InitDir /\ [][NextDir]_vars

----------------------------------------------------------------------------
(* Properties of the RewindReader, checked under SpecStream *)

IsPrefix(a, b) == Len(a) <= Len(b) /\ SubSeq(b, 1, Len(a)) = a

\* C7: after SetBufferSize(n > 0), reads that delivered b0..bk and Rewind(),
\* the following reads deliver b0..bk once more, in order, and then the bytes
\* of the source that had not been read when Rewind() was called; this for
\* every split of the reads into calls (Read, ReadByte, Discard, Seek)
C7_ReplayThenLive ==
    hist.phase = "replay" =>
        IsPrefix(hist.second,
                 hist.first \o SubSeq(src, hist.live + 1, Len(src)))

\* a session that buffered two bytes, replayed them and went on reading live
C7_Witness ==
    /\ hist.phase = "replay"
    /\ Len(hist.first) = 2
    /\ Len(hist.second) > 2
    /\ ret.op = "Read" /\ ret.n = 1

C9_SeekBackFails ==
    [][(ret'.op = "Seek" /\ ret'.arg < rr[0].readIdx) =>
           (ret'.err # Nil /\ ret'.n = 0 /\ pos' = pos /\ rr' = rr)]_vars

\* a backward Seek refused in the middle of a replay
C9_Witness ==
    /\ ret.op = "Seek" /\ ret.err = ErrSeekBack
    /\ ret.arg < rr[0].readIdx
    /\ rr[0].rewound /\ rr[0].bufReadIdx = 1 /\ Len(rr[0].buf) = 2

\* C10: Rewind() panics exactly when no buffer is set (SetBufferSize(n > 0)
\* never called, or the buffer released by SetBufferSize(0)); with a buffer
\* set it returns and the buffer read-offset is zero
C10_RewindPanicsIffNoBuffer ==
    [][ret'.op = "Rewind" =>
           /\ (ret'.err = Panic) <=> (hist.set # "set")
           /\ hist.set = "set" => (ret'.err = Nil /\ rr'[0].bufReadIdx = 0
                                   /\ rr'[0].rewound)]_vars

\* a Rewind() that panicked because SetBufferSize(0) had released the buffer
C10_Witness ==
    /\ ret.op = "Rewind" /\ ret.err = Panic
    /\ hist.set = "released"
    /\ mode = "crashed"

----------------------------------------------------------------------------
(* Properties of the catalog *)

\* the directory declares for every entry the checksum and the size of its data
WellFormed ==
    \A i \in 1..Len(layout) :
        /\ layout[i].crc = (IF layout[i].ae = 2 THEN 0 ELSE Crc32(layout[i].data))
        /\ layout[i].usize = Len(layout[i].data)
        /\ layout[i].tagOk
        /\ layout[i].password = (IF layout[i].ae = 0 THEN 0 ELSE TruePassword)
        /\ layout[i].bit3 = (layout[i].desc # "none")

AllPlain == \A i \in 1..Len(layout) : layout[i].ae = 0 /\ ~layout[i].bit3

\* C1: in a well-formed archive of unencrypted entries without descriptor,
\* opened in catalog order, each read to its end before the next is opened,
\* every Open succeeds and every entry delivers exactly its uncompressedSize
\* bytes and then end-of-stream, whatever the lengths in its local header
C1_InOrderReadsComplete ==
    (mode = "catalog" /\ WellFormed /\ AllPlain /\ hist.inOrder) =>
        /\ ret.op = "Open" => ret.err = Nil
        /\ ret.op = "Read" => ret.err \in {Nil, EOF}
        /\ \A i \in 1..Len(layout) : IsPrefix(got[i], layout[i].data)
        /\ (ret.op = "Read" /\ ret.err = EOF) =>
               /\ got[ret.arg] = layout[ret.arg].data
               /\ Len(got[ret.arg]) = files[ret.arg].UncompressedSize64

\* the archive is whole: nothing is cut off its end
Whole == Len(src) = Len(EntriesBytes(layout)) + DirectoryLen

\* offset of the body of entry i in src
BodyOffset(i) ==
    files[i].headerOffset + fileHeaderLen + layout[i].nameLen + layout[i].extraLen

\* the last call was a Read on entry i that delivered nothing although at
\* least one byte was asked for: the read that reached the end of the entry
ReachedEnd(i) == ret.op = "Read" /\ ret.arg = i /\ ret.n = 0

\* C2: an AES entry of any key strength and length, opened with the correct
\* password, its ciphertext and its 10-byte tag untouched: Open succeeds,
\* the reads deliver the whole ciphertext span (compressed size minus salt,
\* verifier and tag) and the read that reaches the end returns end-of-stream
C2_AesReadsToEnd ==
    \A i \in 1..Len(layout) :
        (/\ mode = "catalog" /\ WellFormed /\ Whole /\ hist.inOrder
         /\ layout[i].ae # 0 /\ ret.arg = i) =>
            /\ ret.op = "Open" => ret.err = Nil
            /\ ret.op = "Read" => ret.err \in {Nil, EOF}
            /\ IsPrefix(got[i], layout[i].data)
            /\ ReachedEnd(i) =>
                   /\ ret.err = EOF
                   /\ ar[i].auth
                   /\ Len(got[i]) = files[i].CompressedSize64
                                    - SaltLen(files[i].aesStrength) - pwvvLen - tagLen

\* C3: an AES entry opened with an incorrect password (the derived
\* verification value differs from the stored one): Open returns the
\* password error and no reader, and of the body only the salt and the two
\* verifier bytes have left the stream
C3_WrongPasswordFailsOpen ==
    \A i \in 1..Len(layout) :
        (/\ mode = "catalog" /\ Whole /\ hist.inOrder
         /\ layout[i].ae # 0 /\ ret.op = "Open" /\ ret.arg = i
         /\ generateKeys(files[i].password, Salt(layout[i]),
                         aesKeyLen(files[i].aesStrength)).pwv # Keys(layout[i]).pwv) =>
            /\ ret.err = ErrPassword
            /\ fr[i].kind = "none"
            /\ pos = BodyOffset(i) + SaltLen(files[i].aesStrength) + pwvvLen

\* C4: an AES entry opened with the correct password, once the ciphertext
\* is exhausted: with 10 trailer bytes available that differ from the
\* computed tag the read returns the authentication error, with fewer than
\* 10 available the decryption error
C4_TrailerErrors ==
    \A i \in 1..Len(layout) :
        (/\ mode = "catalog" /\ hist.inOrder
         /\ layout[i].ae # 0 /\ layout[i].password = TruePassword
         /\ ReachedEnd(i) /\ dlim[i] = 0) =>
            /\ (Whole /\ ~layout[i].tagOk) => ret.err = ErrAuthentication
            /\ ~Whole => ret.err = ErrDecryption

\* C5: an entry that is not AE-2 and has no descriptor, whatever checksum
\* the directory declares: when the data has the declared length, the read
\* that reaches the end returns the checksum error if the CRC-32 of the data
\* differs from the declared one, and end-of-stream if it is equal
C5_ChecksumDecides ==
    \A i \in 1..Len(layout) :
        (/\ mode = "catalog" /\ Whole /\ hist.inOrder
         /\ layout[i].ae # 2 /\ ~hasDataDescriptor(files[i])
         /\ (layout[i].ae = 1 => layout[i].password = TruePassword /\ layout[i].tagOk)
         /\ fr[i].kind = "file"
         /\ fr[i].nread = files[i].UncompressedSize64
         /\ ReachedEnd(i)) =>
            ret.err = (IF Crc32(got[i]) # files[i].CRC32 THEN ErrChecksum ELSE EOF)

\* the bytes z.r delivers from now on: the rest of a replay, then the
\* bytes of the archive from the position of the underlying reader
Upcoming ==
    (IF rr[0].rewound
     THEN SubSeq(rr[0].buf, rr[0].bufReadIdx + 1, Len(rr[0].buf)) ELSE <<>>)
    \o SubSeq(src, pos + 1, Len(src))

\* C6: an entry with flag bit 3 and no descriptor, followed by the local
\* header of the next entry: once it is read to the end, the read returned
\* end-of-stream and not a checksum error, the cursor of z.r is at the
\* descriptor offset and z.r delivers the header signature and what follows
\* it next; Open of the next entry then succeeds, skips that entry's name
\* and extra field, and its reads deliver that entry's data
C6_MissingDescriptorKeepsHeader ==
    (/\ mode = "catalog" /\ Len(layout) = 2 /\ hist.inOrder
     /\ layout[1].bit3 /\ layout[1].desc = "none"
     /\ fr[1].kind = "file" /\ fr[1].nread = files[1].UncompressedSize64
     /\ fr[1].err # Nil) =>
        /\ fr[1].err = EOF
        /\ (ret.op = "Read" /\ ret.arg = 1) =>
               /\ rr[0].readIdx = fr[1].descOff
               /\ Upcoming = SubSeq(src, fr[1].descOff + 1, Len(src))
        /\ (ret.op = "Open" /\ ret.arg = 2) =>
               /\ ret.err = Nil
               /\ ret.n = layout[2].nameLen + layout[2].extraLen
        /\ IsPrefix(got[2], layout[2].data)

\* the records init parsed: the headers before the first record that is
\* not one, each with its position in the directory
RECURSIVE ParsedUpTo(_, _)
ParsedUpTo(d, k) ==
    IF k > Len(d.records) \/ d.records[k].kind # "header" THEN <<>>
    ELSE <<FastFile(d.records[k], k)>> \o ParsedUpTo(d, k + 1)

Parsed == ParsedUpTo(layout, 1)

Ascending(fs) ==
    \A i \in 1..(Len(fs) - 1) : fs[i].headerOffset <= fs[i + 1].headerOffset

\* C11: whatever the order of the records of the directory, WalkDir
\* enumerates the parsed records, each once, by ascending header offset
C11_WalkDirByOffset ==
    (mode = "directory" /\ hist.phase = "walked") =>
        /\ Len(got) = Len(Parsed)
        /\ { got[i] : i \in 1..Len(got) } = { Parsed[i] : i \in 1..Len(Parsed) }
        /\ Ascending(got)

C11_Witness ==
    /\ mode = "directory" /\ hist.phase = "walked"
    /\ Len(got) = 3
    /\ ~Ascending(Parsed)
    /\ got[1].headerOffset < got[3].headerOffset

\* the loop of init stopped at record k of the directory
StoppedAt(k) == hist.phase \in {"ready", "walked"} /\ hist.k + 1 = k

\* C18 as stated: the loop stops at the declared count or at a malformed or
\* short record, whichever is first, so z.files never holds more entries
\* than the end record declares, and such a record does not make init fail
C18_StopsAtCountOrBadRecord ==
    mode = "directory" =>
        /\ Len(files) <= layout.count
        /\ \A k \in 1..Len(layout.records) :
               (hist.phase # "end" /\ layout.endErr = Nil /\ Len(Parsed) = k - 1
                /\ layout.records[k].kind \in {"malformed", "short"})
               => hist.phase # "failed"

\* C18 amended: the loop stops at the first malformed or short record (or at
\* the end record) and nowhere else; then init returns nil with every header
\* before that record in z.files, however many the end record declares
C18_StopsOnlyAtBadRecord ==
    mode = "directory" =>
        /\ hist.phase \in {"ready", "walked"} =>
               /\ ret.err = Nil
               /\ Len(files) = Len(Parsed)
               /\ \/ hist.k = Len(layout.records)
                  \/ layout.records[hist.k + 1].kind \in {"malformed", "short"}
        /\ hist.phase = "failed" =>
               \/ layout.endErr # Nil
               \/ /\ Len(Parsed) < Len(layout.records)
                  /\ layout.records[Len(Parsed) + 1].kind = "error"
        /\ hist.phase = "headers" => files = SubSeq(Parsed, 1, hist.k)

C18_Witness ==
    /\ mode = "directory" /\ hist.phase = "ready"
    /\ Len(files) = 2 /\ layout.count = 1
    /\ Len(layout.records) = 3 /\ layout.records[3].kind = "short"

\* the errors of the package that name a failure of the archive or of the
\* entry, from which the error of an access out of order must differ
ArchiveErrors ==
    {ErrFormat, ErrPassword, ErrAuthentication, ErrChecksum, ErrDecryption,
     ErrUnexpectedEOF, ErrAlgorithm, EOF, Nil}

\* C12: Open of an entry while the cursor of z.r is past the entry's header
\* offset returns the error of Seek, which is none of the format, password,
\* authentication, checksum, decryption, truncation and algorithm errors,
\* returns no reader and leaves z.r and the stream below it as they were
C12_OutOfOrderOpenFails ==
    [][\A i \in 1..Len(files) :
          (/\ mode = "catalog" /\ i \notin hist.tried /\ i \in hist'.tried
           /\ rr[0].readIdx > files[i].headerOffset) =>
              /\ ret'.op = "Open" /\ ret'.arg = i
              /\ ret'.err = ErrSeekBack
              /\ ret'.err \notin ArchiveErrors
              /\ fr'[i].kind = "none"
              /\ pos' = pos /\ rr' = rr /\ lim' = lim]_vars

\* entry 1 was opened after entry 2 had been opened and read
C12_Witness ==
    /\ mode = "catalog" /\ Len(files) = 2
    /\ ret.op = "Open" /\ ret.arg = 1 /\ ret.err = ErrSeekBack
    /\ 2 \in hist.tried /\ Len(got[2]) > 0
    /\ rr[0].readIdx > files[1].headerOffset

\* C13: once a Read on the reader of an entry has returned an error other
\* than end-of-stream, every later Read on it returns no byte and that same
\* error, and does not call Read on the stream below
C13_StickyFailure ==
    \A i \in 1..Len(layout) :
        (/\ mode = "catalog" /\ ret.op = "Read" /\ ret.arg = i
         /\ hist.failed[i].later) =>
            /\ ret.n = 0
            /\ ret.err = hist.failed[i].err
            /\ ~net.called

\* r.rc.Read would report end-of-stream to the integrity reader of entry i,
\* and the bytes produced are not as many as the directory declares
EndsOffSize(i) ==
    /\ fr[i].kind = "file" /\ fr[i].err = Nil
    /\ \A n \in 1..MaxArg : rcRead(IO, i, n).err = EOF
    /\ fr[i].nread # files[i].UncompressedSize64

\* C14: when the decompressor reports end-of-stream and the count of bytes
\* produced is not the declared uncompressed size, Read returns
\* io.ErrUnexpectedEOF and no byte, whatever the checksums are, and z.r is
\* neither sought nor read for a descriptor
C14_LengthBeforeChecksum ==
    [][\A i \in 1..Len(layout) :
          (/\ mode = "catalog" /\ EndsOffSize(i)
           /\ ret'.op = "Read" /\ ret'.arg = i /\ hist'.failed[i] # hist.failed[i]) =>
              /\ ret'.err = ErrUnexpectedEOF
              /\ ret'.n = 0
              /\ pos' = pos /\ rr' = rr]_vars

\* the read at the end of a flagged entry whose data is longer than
\* declared and has another checksum than declared: the descriptor is still
\* ahead of z.r
C14_Witness ==
    /\ mode = "catalog" /\ Len(layout) = 1
    /\ layout[1].bit3 /\ layout[1].desc = "sig"
    /\ layout[1].usize < Len(layout[1].data)
    /\ layout[1].crc # Crc32(layout[1].data)
    /\ ret.op = "Read" /\ ret.err = ErrUnexpectedEOF
    /\ lim[1] = 0 /\ pos = fr[1].descOff /\ fr[1].descOff > 0

\* the number of bytes a step took from the stream of z.r, replayed bytes
\* included
Consumed == Len(Upcoming) - Len(Upcoming')

\* C15: Seek(offset, 0) with offset at or above the cursor and at least
\* offset minus cursor bytes ahead returns no error, takes exactly that many
\* bytes from the stream and leaves the cursor at offset
C15_SeekLandsOnOffset ==
    [][(/\ mode = "stream" /\ ret'.op = "Seek" /\ ret'.err # ErrWhence
        /\ ret'.arg >= rr[0].readIdx
        /\ Len(Upcoming) >= ret'.arg - rr[0].readIdx) =>
           /\ ret'.err = Nil
           /\ Consumed = ret'.arg - rr[0].readIdx
           /\ rr'[0].readIdx = ret'.arg]_vars

\* C16: Discard(n) with at least n bytes ahead returns n and no error, takes
\* exactly n bytes from the stream and adds n to the cursor, also when a
\* read of the replay buffer or of a volume comes back short
C16_DiscardSkipsExactly ==
    [][(/\ mode = "stream" /\ ret'.op = "Discard"
        /\ Len(Upcoming) >= ret'.arg) =>
           /\ ret'.err = Nil
           /\ ret'.n = ret'.arg
           /\ Consumed = ret'.arg
           /\ rr'[0].readIdx = rr[0].readIdx + ret'.arg]_vars

\* C17: a flagged entry followed by its descriptor, with or without the
\* descriptor signature, read to its end with the declared length: the
\* checksum field of the descriptor (after the signature, or the first four
\* bytes) is compared with the entry's checksum; equal gives no error from
\* the descriptor, so that the read ends as the checksum of the data
\* decides, and different gives the checksum error
C17_DescriptorChecksumField ==
    \A i \in 1..Len(layout) :
        (/\ mode = "catalog" /\ Whole /\ net.fault < 0 /\ hist.inOrder
         /\ layout[i].ae = 0 /\ layout[i].bit3
         /\ layout[i].desc \in {"sig", "nosig"}
         /\ fr[i].kind = "file"
         /\ fr[i].nread = files[i].UncompressedSize64
         /\ ReachedEnd(i)) =>
            ret.err = (IF layout[i].descCrc # files[i].CRC32 THEN ErrChecksum
                       ELSE IF Crc32(got[i]) # files[i].CRC32 THEN ErrChecksum
                       ELSE EOF)

\* C19: when a Read of the transport returned an error other than EOF
\* during a Read on the reader of an entry, that Read returns the same
\* error, not the format, decryption, authentication or checksum error
C19_TransportErrorsPassThrough ==
    (mode = "catalog" /\ ret.op = "Read" /\ net.faulted) => ret.err = ErrIO

\* C20: once a later entry j has been opened, a Read on the reader of an
\* earlier entry i that has not ended takes no byte from z.r
C20_OneReaderConsumes ==
    [][\A i, j \in 1..Len(layout) :
          (/\ mode = "catalog" /\ i < j
           /\ fr[i].kind # "none" /\ ReaderErr(i) = Nil
           /\ j \in hist.tried /\ fr[j].kind # "none"
           /\ ret'.op = "Read" /\ ret'.arg = i) =>
              (Consumed = 0 /\ got'[i] = got[i])]_vars

====
